---- MODULE Spec2Model ----
(***************************************************************************)
(* fiducial_deconvolute: the offset-and-delegate wrapper around the        *)
(* external convolved_fit routine                                          *)
(* (halotools/empirical_models/AbundanceMatching/fiducial_deconv_wrapper). *)
(*                                                                         *)
(* A call is modelled statement by statement; pc[c] is the source line the *)
(* call c is about to execute.  Arrays are caller-owned numpy float64      *)
(* arrays; their arithmetic is modelled by a binary floating-point format  *)
(* with Prec significant bits (round to nearest, ties to even) whose unit  *)
(* is the smallest representable quantum.  Overflow, infinities and NaN    *)
(* are not modelled.  wrapper_fiducial_deconvolute.pyx (lines 41-54) holds *)
(* the same statements with af['key'] in the place of af_key.              *)
(***************************************************************************)
EXTENDS Integers, Sequences, FiniteSets, TLC

\* ---------------------------------------------------------------- bounds
Prec == 2        \* significant bits of the modelled floating-point format
MaxVal == 3      \* largest magnitude of an input array element
MaxStep == 1     \* largest magnitude of the sm_step argument
MaxLen == 2      \* longest input array

Calls == {1, 2}

\* ------------------------------------------------- float64 arithmetic
RECURSIVE Pow2(_)
Pow2(n) == IF n = 0 THEN 1 ELSE 2 * Pow2(n - 1)

RECURSIVE ExpOf(_, _)
\* the binary exponent of the magnitude a: the least e with a < 2^(Prec+e)
ExpOf(a, e) == IF a < Pow2(Prec + e) THEN e ELSE ExpOf(a, e + 1)

\* the spacing of representable values around x
Ulp(x) == Pow2(ExpOf(IF x < 0 THEN -x ELSE x, 0))

\* round a magnitude to Prec significant bits, nearest, ties to even
RoundMag(a) ==
  LET u == Pow2(ExpOf(a, 0))
      q == a \div u
      r == a % u
  IN  IF 2 * r < u THEN q * u
      ELSE IF 2 * r > u THEN (q + 1) * u
      ELSE IF q % 2 = 0 THEN q * u ELSE (q + 1) * u

Round(x) == IF x < 0 THEN -RoundMag(-x) ELSE RoundMag(x)

FAdd(a, b) == Round(a + b)
FSub(a, b) == Round(a - b)

\* np.fabs(float(sm_step))
fabsNoop(x) == x
fabs(x) == IF x < 0 THEN -x ELSE x

\* arr += o ; arr -= o  (elementwise, in place)
IAdd(arr, o) == [i \in 1..Len(arr) |-> FAdd(arr[i], o)]
ISubAsAdd(arr, o) == [i \in 1..Len(arr) |-> FAdd(arr[i], o)]
ISub(arr, o) == [i \in 1..Len(arr) |-> FSub(arr[i], o)]

\* arr.min()
ArrMin(arr) == CHOOSE m \in {arr[i] : i \in 1..Len(arr)} :
                 \A i \in 1..Len(arr) : m <= arr[i]

\* python's min(a, b)
Min2(a, b) == IF b < a THEN b ELSE a

\* ------------------------------------------------------------- inputs
Vals == {Round(v) : v \in {-MaxVal, 0, 1, MaxVal}}
Steps == {Round(s) : s \in {-MaxStep, 0, MaxStep}}
Arrays == UNION {[1..n -> Vals] : n \in 1..MaxLen}
Ones(n) == [i \in 1..n |-> 1]
\* what convolved_fit may leave in smm: an array of the same length, of
\* either sign, its first element chosen apart from the others
FitVals == {-1, MaxVal}
FitResults(n) == {[i \in 1..n |-> IF i = 1 THEN a ELSE b] : a, b \in FitVals}
\* the inputs of the two interleaved calls
ConcKeys == {<<-MaxVal, MaxVal>>, <<1>>}
ConcSmms == {<<0>>, <<1>>}

\* -------------------------------------------------------------- state
VARIABLES
  pc,        \* pc[c]: the source line call c executes next, or how it ended
  af_key,    \* af_key[k]: the contents of key array k
  keyOf,     \* keyOf[c]: the key array passed to call c as af_key
  af_val,    \* af_val[c]: the af_val array of call c
  smm,       \* smm[c]: the contents of the smm array of call c
  mf,        \* mf[c]: the mf array of call c
  sm_step,   \* sm_step[c]: the local sm_step
  sm_min,    \* sm_min[c]: the local sm_min, <<>> while unbound
  offset,    \* offset[c]: the local offset, <<>> while unbound
  fitcalls,  \* fitcalls[c]: the invocations of convolved_fit, with arguments
  fitted,    \* fitted[c]: smm as convolved_fit left it, <<>> before
  ret,       \* ret[c]: the returned array, <<>> before the return
  arg,       \* arg[c]: the arguments as the caller supplied them
  trace      \* trace[c]: the statements executed so far

vars == <<pc, af_key, keyOf, af_val, smm, mf, sm_step, sm_min, offset,
          fitcalls, fitted, ret, arg, trace>>

Key(c) == af_key[keyOf[c]]

Locals0 ==
  /\ sm_min = [c \in Calls |-> <<>>]
  /\ offset = [c \in Calls |-> <<>>]
  /\ fitcalls = [c \in Calls |-> <<>>]
  /\ fitted = [c \in Calls |-> <<>>]
  /\ ret = [c \in Calls |-> <<>>]
  /\ trace = [c \in Calls |-> <<>>]

\* one call: call 1 runs, call 2 is never made
Init ==
  /\ pc = [c \in Calls |-> IF c = 1 THEN "l20" ELSE "idle"]
  /\ keyOf = [c \in Calls |-> c]
  /\ \E k \in Arrays : af_key = [c \in Calls |-> IF c = 1 THEN k ELSE <<1>>]
  /\ af_val = [c \in Calls |-> Ones(Len(af_key[c]))]
  /\ \E s \in Arrays : smm = [c \in Calls |-> IF c = 1 THEN s ELSE <<1>>]
  /\ \E n \in 1..MaxLen : mf = [c \in Calls |-> IF c = 1 THEN Ones(n) ELSE <<1>>]
  /\ \E st \in Steps : sm_step = [c \in Calls |-> IF c = 1 THEN st ELSE 1]
  /\ arg = [c \in Calls |-> [key |-> af_key[c], val |-> af_val[c], smm |-> smm[c],
                             mf |-> mf[c], step |-> sm_step[c]]]
  /\ Locals0

\* two calls, interleaved, on the same key array or on two
InitConc ==
  /\ pc = [c \in Calls |-> "l20"]
  /\ keyOf \in {[c \in Calls |-> c], [c \in Calls |-> 1]}
  /\ af_key \in [Calls -> ConcKeys]
  /\ af_val = [c \in Calls |-> Ones(Len(af_key[c]))]
  /\ smm \in [Calls -> ConcSmms]
  /\ mf = [c \in Calls |-> Ones(Len(smm[c]))]
  /\ sm_step = [c \in Calls |-> 1]
  /\ arg = [c \in Calls |-> [key |-> af_key[keyOf[c]], val |-> af_val[c],
                             smm |-> smm[c], mf |-> mf[c], step |-> sm_step[c]]]
  /\ Locals0

\* ------------------------------------------------------------ actions
Goto(c, l) == pc' = [pc EXCEPT ![c] = l]
Log(c, e) == trace' = [trace EXCEPT ![c] = Append(@, e)]

\* line 20: len(smm) != len(mf)
LenMismatchNever(c) == FALSE
LenMismatch(c) == Len(smm[c]) # Len(mf[c])

\* lines 20-21
Validate(c) ==
  /\ pc[c] = "l20"
  /\ IF LenMismatch(c) THEN Goto(c, "ValueError") ELSE Goto(c, "l22")
  /\ Log(c, "validate")
  /\ UNCHANGED <<af_key, keyOf, af_val, smm, mf, sm_step, sm_min, offset,
                 fitcalls, fitted, ret, arg>>

\* line 22
AbsStep(c) ==
  /\ pc[c] = "l22"
  /\ sm_step' = [sm_step EXCEPT ![c] = fabs(@)]
  /\ Goto(c, "l23")
  /\ Log(c, "abs")
  /\ UNCHANGED <<af_key, keyOf, af_val, smm, mf, sm_min, offset,
                 fitcalls, fitted, ret, arg>>

\* line 23
ComputeMin(c) ==
  /\ pc[c] = "l23"
  /\ sm_min' = [sm_min EXCEPT ![c] = <<Min2(ArrMin(Key(c)), ArrMin(smm[c]))>>]
  /\ Goto(c, "l24")
  /\ Log(c, "min")
  /\ UNCHANGED <<af_key, keyOf, af_val, smm, mf, sm_step, offset,
                 fitcalls, fitted, ret, arg>>

\* line 24: sm_min <= 0
FirstGuardAlways(c) == TRUE
FirstGuard(c) == sm_min[c][1] <= 0

\* line 24
If1(c) ==
  /\ pc[c] = "l24"
  /\ IF FirstGuard(c) THEN Goto(c, "l25") ELSE Goto(c, "l30")
  /\ UNCHANGED <<af_key, keyOf, af_val, smm, mf, sm_step, sm_min, offset,
                 fitcalls, fitted, ret, arg, trace>>

\* line 25: sm_step - sm_min
OffsetOf(c) == FSub(sm_step[c], sm_min[c][1])

\* line 25
ComputeOffset(c) ==
  /\ pc[c] = "l25"
  /\ offset' = [offset EXCEPT ![c] = <<OffsetOf(c)>>]
  /\ Goto(c, "l26")
  /\ UNCHANGED <<af_key, keyOf, af_val, smm, mf, sm_step, sm_min,
                 fitcalls, fitted, ret, arg, trace>>

\* line 26, were the shift applied to one module-level key buffer
AddKeyShared(c) ==
  /\ pc[c] = "l26"
  /\ af_key' = [af_key EXCEPT ![1] = IAdd(@, offset[c][1])]
  /\ Goto(c, "l27")
  /\ Log(c, "add_key")
  /\ UNCHANGED <<keyOf, af_val, smm, mf, sm_step, sm_min, offset,
                 fitcalls, fitted, ret, arg>>

\* line 26
AddKey(c) ==
  /\ pc[c] = "l26"
  /\ af_key' = [af_key EXCEPT ![keyOf[c]] = IAdd(@, offset[c][1])]
  /\ Goto(c, "l27")
  /\ Log(c, "add_key")
  /\ UNCHANGED <<keyOf, af_val, smm, mf, sm_step, sm_min, offset,
                 fitcalls, fitted, ret, arg>>

\* line 27
AddSmm(c) ==
  /\ pc[c] = "l27"
  /\ smm' = [smm EXCEPT ![c] = IAdd(@, offset[c][1])]
  /\ Goto(c, "l30")
  /\ Log(c, "add_smm")
  /\ UNCHANGED <<af_key, keyOf, af_val, mf, sm_step, sm_min, offset,
                 fitcalls, fitted, ret, arg>>

\* lines 30-31: the arguments handed to convolved_fit
FitArgs(c) ==
  [key |-> Key(c), val |-> af_val[c], n_af |-> Len(Key(c)),
   smm |-> smm[c], mf |-> mf[c], n_mf |-> Len(mf[c]), step |-> sm_step[c]]

\* lines 30-31: convolved_fit returns, having rewritten smm in place
Fit(c) ==
  /\ pc[c] = "l30"
  /\ fitcalls' = [fitcalls EXCEPT ![c] = Append(@, FitArgs(c))]
  /\ \E out \in FitResults(Len(smm[c])) :
       /\ smm' = [smm EXCEPT ![c] = out]
       /\ fitted' = [fitted EXCEPT ![c] = out]
  /\ Goto(c, "l32")
  /\ Log(c, "fit")
  /\ UNCHANGED <<af_key, keyOf, af_val, mf, sm_step, sm_min, offset, ret, arg>>

\* lines 30-31, were a failure of convolved_fit followed by the restoration
FitFailRestoring(c) ==
  /\ pc[c] = "l30"
  /\ fitcalls' = [fitcalls EXCEPT ![c] = Append(@, FitArgs(c))]
  /\ fitted' = [fitted EXCEPT ![c] = smm[c]]
  /\ smm' = [smm EXCEPT ![c] = IF offset[c] = <<>> THEN @ ELSE ISub(@, offset[c][1])]
  /\ af_key' = [af_key EXCEPT ![keyOf[c]] =
                  IF offset[c] = <<>> THEN @ ELSE ISub(@, offset[c][1])]
  /\ Goto(c, "FitError")
  /\ Log(c, "fit")
  /\ UNCHANGED <<keyOf, af_val, mf, sm_step, sm_min, offset, ret, arg>>

\* lines 30-31: convolved_fit fails, having rewritten smm or not
FitFail(c) ==
  /\ pc[c] = "l30"
  /\ fitcalls' = [fitcalls EXCEPT ![c] = Append(@, FitArgs(c))]
  /\ \E out \in FitResults(Len(smm[c])) \cup {smm[c]} :
       /\ smm' = [smm EXCEPT ![c] = out]
       /\ fitted' = [fitted EXCEPT ![c] = out]
  /\ Goto(c, "FitError")
  /\ Log(c, "fit")
  /\ UNCHANGED <<af_key, keyOf, af_val, mf, sm_step, sm_min, offset, ret, arg>>

\* line 32: sm_min <= 0, the value computed at line 23
SecondGuardRecomputed(c) == Min2(ArrMin(Key(c)), ArrMin(smm[c])) <= 0
SecondGuard(c) == sm_min[c][1] <= 0

\* line 32
If2(c) ==
  /\ pc[c] = "l32"
  /\ IF SecondGuard(c) THEN Goto(c, "l33") ELSE Goto(c, "l35")
  /\ UNCHANGED <<af_key, keyOf, af_val, smm, mf, sm_step, sm_min, offset,
                 fitcalls, fitted, ret, arg, trace>>

\* line 33
SubSmm(c) ==
  /\ pc[c] = "l33"
  /\ smm' = [smm EXCEPT ![c] = ISub(@, offset[c][1])]
  /\ Goto(c, "l34")
  /\ Log(c, "sub_smm")
  /\ UNCHANGED <<af_key, keyOf, af_val, mf, sm_step, sm_min, offset,
                 fitcalls, fitted, ret, arg>>

\* line 34
SubKey(c) ==
  /\ pc[c] = "l34"
  /\ af_key' = [af_key EXCEPT ![keyOf[c]] = ISub(@, offset[c][1])]
  /\ Goto(c, "l35")
  /\ Log(c, "sub_key")
  /\ UNCHANGED <<keyOf, af_val, smm, mf, sm_step, sm_min, offset,
                 fitcalls, fitted, ret, arg>>

\* line 35, were the array returned the one convolved_fit left
ReturnFitted(c) ==
  /\ pc[c] = "l35"
  /\ ret' = [ret EXCEPT ![c] = <<fitted[c]>>]
  /\ Goto(c, "done")
  /\ Log(c, "return")
  /\ UNCHANGED <<af_key, keyOf, af_val, smm, mf, sm_step, sm_min, offset,
                 fitcalls, fitted, arg>>

\* line 35
Return(c) ==
  /\ pc[c] = "l35"
  /\ ret' = [ret EXCEPT ![c] = <<smm[c]>>]
  /\ Goto(c, "done")
  /\ Log(c, "return")
  /\ UNCHANGED <<af_key, keyOf, af_val, smm, mf, sm_step, sm_min, offset,
                 fitcalls, fitted, arg>>

Next ==
  \E c \in Calls :
    \/ Validate(c)
    \/ AbsStep(c)
    \/ ComputeMin(c)
    \/ If1(c)
    \/ ComputeOffset(c)
    \/ AddKey(c)
    \/ AddSmm(c)
    \/ Fit(c)
    \/ FitFail(c)
    \/ If2(c)
    \/ SubSmm(c)
    \/ SubKey(c)
    \/ Return(c)

Spec == Init /\ [][Next]_vars
SpecConc == InitConc /\ [][Next]_vars

\* ------------------------------------------------------------- claims
\* what the claims speak of, in terms of the arguments as supplied
ArgMin(c) == Min2(ArrMin(arg[c].key), ArrMin(arg[c].smm))
OffsetCase(c) == ArgMin(c) <= 0
Magnitude(x) == IF x < 0 THEN -x ELSE x
AllPositive(arr) == \A i \in 1..Len(arr) : arr[i] > 0
Has(c, e) == \E i \in 1..Len(trace[c]) : trace[c][i] = e
Disjoint == keyOf[1] # keyOf[2]

\* C1: a call with len(smm) # len(mf) ends in ValueError at once: it never
\* leaves the validation, convolved_fit is never invoked, and key and smm
\* hold what the caller supplied.
C1_MismatchRejectedUntouched ==
  \A c \in Calls :
    Len(arg[c].smm) # Len(arg[c].mf) =>
      /\ pc[c] \in {"idle", "l20", "ValueError"}
      /\ fitcalls[c] = <<>>
      /\ Key(c) = arg[c].key
      /\ smm[c] = arg[c].smm

C1_Witness ==
  /\ pc[1] = "ValueError"
  /\ Len(arg[1].smm) # Len(arg[1].mf)
  /\ OffsetCase(1)

\* C2: every key and smm value handed to convolved_fit is strictly greater
\* than zero, whatever the step and the inputs.
C2_FitInputsPositive ==
  \A c \in Calls : \A i \in 1..Len(fitcalls[c]) :
    AllPositive(fitcalls[c][i].key) /\ AllPositive(fitcalls[c][i].smm)

\* C3 as stated: in the offset case a returned call leaves every key element
\* equal to the value the caller supplied.
C3_KeyRestoredExactly ==
  (pc[1] = "done" /\ OffsetCase(1)) => Key(1) = arg[1].key

\* C3 as amended: in the offset case a returned call leaves every key
\* element within one unit in the last place of the shifted value
\* key + offset of the value the caller supplied, and equal to it when
\* key + offset is representable; the offset subtracted is the one added.
C3_KeyRestoredWithinRounding ==
  (pc[1] = "done" /\ OffsetCase(1)) =>
    /\ offset[1] # <<>>
    /\ Has(1, "add_key") /\ Has(1, "sub_key")
    /\ Len(Key(1)) = Len(arg[1].key)
    /\ \A i \in 1..Len(arg[1].key) :
         LET k == arg[1].key[i]
             a == Round(k + offset[1][1])
         IN  /\ Magnitude(Key(1)[i] - k) <= Ulp(a)
             /\ (a = k + offset[1][1] => Key(1)[i] = k)

C3_Witness ==
  /\ pc[1] = "done" /\ OffsetCase(1)
  /\ Key(1) # arg[1].key

\* C4: when min(key) > 0 and min(smm) > 0 no offset is applied at any point:
\* key is never written, and convolved_fit receives key and smm as supplied.
C4_NoOffsetUntouched ==
  (pc[1] # "idle" /\ ~OffsetCase(1)) =>
    /\ offset[1] = <<>>
    /\ Key(1) = arg[1].key
    /\ ~Has(1, "add_key") /\ ~Has(1, "add_smm")
    /\ ~Has(1, "sub_key") /\ ~Has(1, "sub_smm")
    /\ pc[1] \notin {"l25", "l26", "l27", "l33", "l34"}
    /\ \A i \in 1..Len(fitcalls[1]) :
         /\ fitcalls[1][i].key = arg[1].key
         /\ fitcalls[1][i].smm = arg[1].smm

C4_Witness ==
  /\ pc[1] = "done" /\ ~OffsetCase(1)
  /\ Len(fitcalls[1]) = 1
  /\ ret[1] # <<arg[1].smm>>

\* C5: a returned call returns an array as long as the smm supplied, equal
\* element by element to what convolved_fit left in smm minus the offset
\* (offset case) or to it unchanged (no offset); convolved_fit was given the
\* supplied smm plus that offset, or the supplied smm itself.
C5_ReturnIsFittedMinusOffset ==
  pc[1] = "done" =>
    /\ Len(ret[1]) = 1 /\ Len(fitcalls[1]) = 1
    /\ Len(ret[1][1]) = Len(arg[1].smm)
    /\ (offset[1] # <<>>) = OffsetCase(1)
    /\ \A i \in 1..Len(arg[1].smm) :
         IF OffsetCase(1)
           THEN /\ ret[1][1][i] = Round(fitted[1][i] - offset[1][1])
                /\ fitcalls[1][1].smm[i] = Round(arg[1].smm[i] + offset[1][1])
           ELSE /\ ret[1][1][i] = fitted[1][i]
                /\ fitcalls[1][1].smm[i] = arg[1].smm[i]

C5_Witness ==
  /\ pc[1] = "done" /\ OffsetCase(1)
  /\ offset[1] # <<>> /\ offset[1][1] > 0
  /\ ret[1][1] # fitted[1]

\* C6: the step used inside a call is abs(step): the step the offset is
\* computed from and the step forwarded to convolved_fit, and no call is
\* rejected for its step.
C6_StepIsAbsolute ==
  \A c \in Calls :
    /\ pc[c] \notin {"idle", "l20", "l22", "ValueError"} =>
         sm_step[c] = Magnitude(arg[c].step) /\ sm_step[c] >= 0
    /\ offset[c] # <<>> =>
         offset[c][1] = Round(Magnitude(arg[c].step) - sm_min[c][1])
    /\ \A i \in 1..Len(fitcalls[c]) :
         fitcalls[c][i].step = Magnitude(arg[c].step)
    /\ pc[c] = "ValueError" => Len(arg[c].smm) # Len(arg[c].mf)

C6_Witness ==
  /\ pc[1] = "done" /\ arg[1].step < 0
  /\ offset[1] # <<>>
  /\ fitcalls[1][1].step = -arg[1].step

\* what convolved_fit must see of call c: key and smm shifted by the call's
\* own offset, or as supplied when the call applied none
SeesOwnShift(c, call) ==
  IF offset[c] = <<>>
    THEN call.key = arg[c].key /\ call.smm = arg[c].smm
    ELSE /\ call.key = [i \in 1..Len(arg[c].key) |-> Round(arg[c].key[i] + offset[c][1])]
         /\ call.smm = [i \in 1..Len(arg[c].smm) |-> Round(arg[c].smm[i] + offset[c][1])]

\* C7 as stated: interleaved calls on disjoint arrays each hand convolved_fit
\* key and smm shifted by their own offset, and each key is restored at the
\* return.
C7_DisjointCallsIsolatedExactly ==
  Disjoint =>
    \A c \in Calls :
      /\ \A i \in 1..Len(fitcalls[c]) : SeesOwnShift(c, fitcalls[c][i])
      /\ pc[c] = "done" => Key(c) = arg[c].key

\* C7 as amended: interleaved calls on disjoint arrays each hand
\* convolved_fit key and smm shifted by their own offset, and each key is
\* restored at the return to within one unit in the last place of the
\* shifted value (exactly when no offset was applied); calls sharing a key
\* array can hand convolved_fit a key shifted by another amount (the witness).
C7_DisjointCallsIsolated ==
  Disjoint =>
    \A c \in Calls :
      /\ \A i \in 1..Len(fitcalls[c]) : SeesOwnShift(c, fitcalls[c][i])
      /\ pc[c] = "done" =>
           /\ Len(Key(c)) = Len(arg[c].key)
           /\ \A i \in 1..Len(arg[c].key) :
                IF offset[c] = <<>>
                  THEN Key(c)[i] = arg[c].key[i]
                  ELSE Magnitude(Key(c)[i] - arg[c].key[i])
                         <= Ulp(Round(arg[c].key[i] + offset[c][1]))

C7_Witness ==
  /\ ~Disjoint
  /\ \E c \in Calls :
       /\ Len(fitcalls[c]) = 1
       /\ ~SeesOwnShift(c, fitcalls[c][1])
       /\ fitcalls[c][1].smm =
            (IF offset[c] = <<>> THEN arg[c].smm
             ELSE [i \in 1..Len(arg[c].smm) |-> Round(arg[c].smm[i] + offset[c][1])])

\* C8: whenever the offset is computed, offset >= step > 0.
C8_OffsetAtLeastPositiveStep ==
  \A c \in Calls :
    offset[c] # <<>> => (offset[c][1] >= sm_step[c] /\ sm_step[c] > 0)

\* C9: when convolved_fit fails the call ends there: the routine was invoked
\* once, nothing is returned, no subtraction has run, and key holds the
\* supplied values plus the offset and smm what the routine was given or
\* left, not shifted back; no call invokes the routine twice.
C9_FitFailureLeavesOffset ==
  /\ \A c \in Calls : Len(fitcalls[c]) <= 1
  /\ pc[1] = "FitError" =>
       /\ Len(fitcalls[1]) = 1
       /\ ret[1] = <<>>
       /\ ~Has(1, "sub_smm") /\ ~Has(1, "sub_key")
       /\ trace[1][Len(trace[1])] = "fit"
       /\ smm[1] = fitted[1]
       /\ OffsetCase(1) =>
            /\ offset[1] # <<>>
            /\ Key(1) = [i \in 1..Len(arg[1].key) |-> Round(arg[1].key[i] + offset[1][1])]
            /\ fitcalls[1][1].smm =
                 [i \in 1..Len(arg[1].smm) |-> Round(arg[1].smm[i] + offset[1][1])]
            /\ fitted[1] \in FitResults(Len(arg[1].smm)) \cup {fitcalls[1][1].smm}

C9_Witness ==
  /\ pc[1] = "FitError" /\ OffsetCase(1)
  /\ offset[1] # <<>> /\ offset[1][1] > 0
  /\ Key(1) # arg[1].key
  /\ smm[1] = fitcalls[1][1].smm

\* the statements of a call in order, with and without the offset
FullOffsetTrace ==
  <<"validate", "abs", "min", "add_key", "add_smm", "fit", "sub_smm", "sub_key", "return">>
FullPlainTrace == <<"validate", "abs", "min", "fit", "return">>
IsPrefix(s, t) == Len(s) <= Len(t) /\ s = SubSeq(t, 1, Len(s))

\* C10: a call runs validate, then the additions if the minimum computed
\* once from the supplied arrays is <= 0, then convolved_fit exactly once,
\* then the subtractions if and only if the additions ran, then returns;
\* af_val and mf are never written.
C10_FixedOrder ==
  /\ IsPrefix(trace[1], IF OffsetCase(1) THEN FullOffsetTrace ELSE FullPlainTrace)
  /\ pc[1] = "done" =>
       trace[1] = (IF OffsetCase(1) THEN FullOffsetTrace ELSE FullPlainTrace)
  /\ pc[1] \in {"l33", "l34"} => Has(1, "add_key") /\ Has(1, "add_smm")
  /\ sm_min[1] # <<>> => sm_min[1] = <<ArgMin(1)>>
  /\ af_val[1] = arg[1].val
  /\ mf[1] = arg[1].mf

C10_Witness ==
  /\ pc[1] = "done"
  /\ trace[1] = FullOffsetTrace
  /\ ArrMin(fitted[1]) > 0

====
